---- MODULE Spec2Model ----
(***************************************************************************)
(* Identity & authentication subsystem of the report server                *)
(* (src/modules/auth.js): the identity store, the validation pipeline, the *)
(* token service, the guard and verification middleware and the endpoint   *)
(* bindings.  Every handler runs to completion on the single JavaScript    *)
(* thread, so each operation is one atomic action.  The last part is the   *)
(* persistent-connection client (src/unnamed/part_000), a process of its   *)
(* own that keeps the token it was issued in memory and in a state file.   *)
(***************************************************************************)
EXTENDS Integers, Sequences, FiniteSets, TLC

VARIABLES
    identities,   \* auth.js:17  the module-level identity store (an array)
    uuidCount,    \* number of uuidv4() values drawn by addIdentity so far
    now,          \* wall clock (DateTime.now / Date.now), in half seconds
    issued,       \* the token handed out last, with the name and functions it was made from
    last,         \* the operation that ran last: its input and what it returned
    client        \* the persistent-connection client process (src/unnamed/part_000) and its token file

vars == <<identities, uuidCount, now, issued, last, client>>

----------------------------------------------------------------------------
(* Bounds of the model *)

MaxUuid == 2          \* addIdentity calls that get as far as drawing an id
MaxSkew == 2          \* seconds of clock modelled after start-up and around the default expiry

----------------------------------------------------------------------------
(* JavaScript values.  A string is a tuple of one-character strings, so    *)
(* that the regular expressions can be evaluated on it.                    *)

Undef == [t |-> "undef", s |-> <<>>]
Str(s) == [t |-> "str", s |-> s]
Num42 == [t |-> "num", s |-> <<>>]

\* JavaScript truthiness of a value: undefined and '' are falsy, 42 is truthy
Truthy(v) == (v.t = "num") \/ (v.t = "str" /\ v.s # <<>>)

UndefArr == [t |-> "undef", a |-> <<>>]
Arr(a) == [t |-> "array", a |-> a]
NotArr == [t |-> "str", a |-> <<>>]

\* truthiness of a functions value: undefined is falsy, arrays (even []) and
\* a non-empty string are truthy
TruthyArr(v) == v.t # "undef"

Lower == {"a","b","c","d","e","f","g","h","i","j","k","l","m",
          "n","o","p","q","r","s","t","u","v","w","x","y","z"}
Upper == {"A","B","C","D","E","F","G","H","I","J","K","L","M",
          "N","O","P","Q","R","S","T","U","V","W","X","Y","Z"}
Digit == {"0","1","2","3","4","5","6","7","8","9"}
DigitChar == <<"0","1","2","3","4","5","6","7","8","9">>

\* the character class of nameRegex and functionRegex: its range from A to z
\* spans code points 65..122,
\* which holds the characters between Z and a as well (of those six the
\* backslash and the backquote are left out of the model's alphabet)
RegexClass == Upper \cup Lower \cup Digit \cup {"[", "]", "^", "_", "-", "."}

\* s.match(regex) is non-null: the pattern is not anchored, so it
\* matches as soon as one character of s is in the class
nameRegex(s) == \E i \in 1..Len(s) : s[i] \in RegexClass
functionRegex(s) == \E i \in 1..Len(s) : s[i] \in RegexClass

\* the keys a for-in loop visits on an array: its indices, as strings
ForInKeys(arr) == [i \in 1..Len(arr) |-> Str(<<DigitChar[i]>>)]

\* Array.prototype.includes
Includes(arr, v) == \E i \in 1..Len(arr) : arr[i] = v

\* identities.findIndex((o) => o.name == details.name), 0 standing for -1
findIndex(name) ==
    IF \E i \in 1..Len(identities) : identities[i].name = name
    THEN CHOOSE i \in 1..Len(identities) :
            /\ identities[i].name = name
            /\ \A j \in 1..(i-1) : identities[j].name # name
    ELSE 0

----------------------------------------------------------------------------
(* Strings of the program and of the requests *)

ADMIN == Str(<<"a","d","m","i","n">>)
BOB == Str(<<"b","o","b">>)
BADNAME == Str(<<"b","a","d"," ","n","a","m","e","!">>)
BANG == Str(<<"!">>)
F_AUTH == Str(<<"a","u","t","h">>)
F_API == Str(<<"a","p","i">>)
F_ADMIN == Str(<<"a","d","m","i","n">>)
F_BAD == Str(<<"n","o"," ","!">>)
F_ZERO == Str(<<"0">>)

----------------------------------------------------------------------------
(* Credential blobs and result objects, every one with the same fields *)

NoAuth == [kind |-> "undef", type |-> "none", password |-> "none", hash |-> "none"]
RawAuth(type, pw) == [kind |-> "raw", type |-> type, password |-> pw, hash |-> "none"]

NoRecord == [name |-> Undef, auth |-> NoAuth, functions |-> UndefArr, id |-> 0]
NoToken == [payload |-> <<>>, sig |-> "none"]

Result(state, reason) ==
    [state |-> state, pass |-> FALSE, reason |-> reason, names |-> <<>>,
     cleanRecord |-> NoRecord, authType |-> "none", token |-> NoToken,
     identity |-> NoRecord]

\* an exception that leaves the function instead of a result object
Thrown(what) == Result("threw", what)

NoOptions == [newIdentity |-> FALSE, validFunctions |-> UndefArr]

----------------------------------------------------------------------------
(* The password provider (./authProviders/password/module): validate,     *)
(* commit and authenticate of the provider contract.  The stored hash of a *)
(* password is written as the password in the hash field.                  *)

authTypes == {"password"}

passwordValidate(auth) ==
    IF auth.password = "none"
    THEN Result("requestError", "No password specified.")
    ELSE [Result("success", "") EXCEPT
            !.cleanRecord.auth =
                [kind |-> "clean", type |-> auth.type,
                 password |-> auth.password, hash |-> "none"]]

\* outcome: what the provider does on this call ("ok", "failure" or "throw")
passwordCommit(clean, outcome) ==
    CASE outcome = "throw" -> Thrown("commit")
      [] outcome = "failure" -> Result("failure", "commit failed")
      [] OTHER ->
            [Result("success", "") EXCEPT
                !.cleanRecord.auth =
                    [kind |-> "commit", type |-> clean.type,
                     password |-> "none", hash |-> clean.password]]

passwordAuthenticate(storedAuth, details) ==
    IF details.auth.kind = "undef" \/ details.auth.password = "none"
    THEN Result("requestError", "No password provided.")
    ELSE IF details.auth.password = storedAuth.hash
         THEN Result("success", "")
         ELSE Result("failed", "Authentication failed.")

CommitOutcomes == {"ok", "failure", "throw"}

----------------------------------------------------------------------------
(* validateIdentitySpec *)

\* auth.js:116-137, name stage; state "success" stands for falling through
validateName(details, options) ==
    IF ~Truthy(details.name)
    THEN Result("requestError", "No user specified.")
    ELSE IF details.name.t # "str"
    THEN Thrown("TypeError: details.name.match is not a function")
    ELSE IF ~nameRegex(details.name.s)
    THEN Result("requestError", "Invalid name format")
    ELSE LET i == findIndex(details.name) IN
         IF options.newIdentity
         THEN IF i # 0
              THEN Result("requestError", "Identity name already in use.")
              ELSE Result("success", "")
         ELSE IF i = 0
              THEN Result("requestError", "No such user.")
              ELSE Result("success", "")

\* a variant that does not ask a new identity for credentials
validateAuth_authOptional(details, options) ==
    IF details.auth.kind = "undef"
    THEN Result("success", "")
    ELSE IF details.auth.type = "none"
    THEN Result("requestError", "No authentication type specified.")
    ELSE IF details.auth.type \notin authTypes
    THEN Result("serverConfigurationError", "Invalid authentication type specified for user")
    ELSE LET r == passwordValidate(details.auth) IN
         IF r.state # "success"
         THEN r
         ELSE [r EXCEPT !.authType = details.auth.type]

\* auth.js:140-174, authentication stage.  The one registered provider has
\* validate and commit, so the two checks for a missing method never fire.
validateAuth(details, options) ==
    IF options.newIdentity /\ details.auth.kind = "undef"
    THEN Result("requestError", "No athentication details specified for new identity.")
    ELSE IF details.auth.kind = "undef"
    THEN Result("success", "")
    ELSE IF details.auth.type = "none"
    THEN Result("requestError", "No authentication type specified.")
    ELSE IF details.auth.type \notin authTypes
    THEN Result("serverConfigurationError", "Invalid authentication type specified for user")
    ELSE LET r == passwordValidate(details.auth) IN
         IF r.state # "success"
         THEN r
         ELSE [r EXCEPT !.authType = details.auth.type]

\* auth.js:184-189: the loop variable of for-in is an index key, not an element
incorrectFormat(functions) ==
    SelectSeq(ForInKeys(functions), LAMBDA f : f.t # "str" \/ ~functionRegex(f.s))

\* auth.js:197-203
invalidFunctions(functions, validFunctions) ==
    SelectSeq(ForInKeys(functions), LAMBDA f : ~Includes(validFunctions, f))

\* auth.js:176-215, functions stage
validateFunctions(details, options) ==
    IF ~TruthyArr(details.functions)
    THEN [Result("success", "") EXCEPT !.cleanRecord.functions = Arr(<<>>)]
    ELSE IF details.functions.t # "array"
    THEN Result("requestError", "Functions not specified as an array.")
    ELSE IF Len(incorrectFormat(details.functions.a)) > 0
    THEN [Result("requestError", "Incorrectly formatted function names")
            EXCEPT !.names = incorrectFormat(details.functions.a)]
    ELSE IF /\ TruthyArr(options.validFunctions)
            /\ Len(invalidFunctions(details.functions.a, options.validFunctions.a)) > 0
    THEN [Result("requestError", "Invalid functions named")
            EXCEPT !.names = invalidFunctions(details.functions.a, options.validFunctions.a)]
    ELSE [Result("success", "") EXCEPT !.cleanRecord.functions = details.functions]

validateIdentitySpec(details, options) ==
    LET n == validateName(details, options)
        a == validateAuth(details, options)
        f == validateFunctions(details, options)
    IN  IF n.state # "success" THEN n
        ELSE IF a.state # "success" THEN a
        ELSE IF f.state # "success" THEN f
        ELSE [Result("success", "") EXCEPT
                !.pass = TRUE,
                !.authType = a.authType,
                !.cleanRecord = [name |-> details.name,
                                 auth |-> a.cleanRecord.auth,
                                 functions |-> f.cleanRecord.functions,
                                 id |-> 0]]

----------------------------------------------------------------------------
(* Token service *)

secret == "secret"

DefaultLifetime == 1800          \* seconds: now.plus({minutes: 30})

NoTokenOptions == [hasDuration |-> FALSE, duration |-> 0]

\* Math.round(dt.toSeconds()) and Math.floor(Date.now() / 1000) of an instant
\* given in half seconds: round takes the half up, floor drops it
RoundSeconds(halves) == (halves + 1) \div 2
FloorSeconds(halves) == halves \div 2

\* a variant that leaves the functions out of the payload
tokenPayload_noFunctions(identity, options) ==
    << <<"name", identity.name>>, <<"iat", RoundSeconds(now)>>,
       <<"exp", RoundSeconds(now + 2 * DefaultLifetime)>> >>

\* the payload object, as the list of its entries in insertion order
tokenPayload(identity, options) ==
    LET iat == RoundSeconds(now)
        exp == IF options.hasDuration
               THEN RoundSeconds(now + options.duration)
               ELSE RoundSeconds(now + 2 * DefaultLifetime)
        base == << <<"name", identity.name>>, <<"iat", iat>>, <<"exp", exp>> >>
    IN  IF TruthyArr(identity.functions)
        THEN Append(base, <<"functions", identity.functions>>)
        ELSE base

\* jwt.sign(payload, secret)
newToken(identity, options) ==
    [payload |-> tokenPayload(identity, options), sig |-> secret]

HasEntry(payload, key) == \E i \in 1..Len(payload) : payload[i][1] = key
Entry(payload, key) == payload[CHOOSE i \in 1..Len(payload) : payload[i][1] = key][2]

NullClaims == [null |-> TRUE, name |-> Undef, iat |-> 0, exp |-> 0, functions |-> UndefArr]

\* jwt.decode(token): the object read back from the entries of the payload
decode(token) ==
    [null |-> FALSE,
     name |-> IF HasEntry(token.payload, "name") THEN Entry(token.payload, "name") ELSE Undef,
     iat |-> IF HasEntry(token.payload, "iat") THEN Entry(token.payload, "iat") ELSE 0,
     exp |-> IF HasEntry(token.payload, "exp") THEN Entry(token.payload, "exp") ELSE 0,
     functions |-> IF HasEntry(token.payload, "functions")
                   THEN Entry(token.payload, "functions") ELSE UndefArr]

\* a variant that checks the signature alone
jwtVerify_ignoreExpiration(token) == token.sig = secret

\* jwt.verify(token, secret) does not throw: the signature is the secret's and
\* the clock, floored to seconds, is still before exp
jwtVerify(token) ==
    /\ token.sig = secret
    /\ HasEntry(token.payload, "exp") => FloorSeconds(now) < Entry(token.payload, "exp")

\* a variant that looks the token's identity up in the store
verifyToken_consultsStore(token) ==
    IF /\ jwtVerify(token)
       /\ \E i \in 1..Len(identities) : identities[i].name = decode(token).name
    THEN decode(token)
    ELSE NullClaims

verifyToken(token) == IF jwtVerify(token) THEN decode(token) ELSE NullClaims

----------------------------------------------------------------------------
(* Identity store operations.  Each returns the result object (ret), the   *)
(* store it leaves (identities) and the number of ids drawn (uuidCount).   *)

SeedAuth == [kind |-> "commit", type |-> "password", password |-> "Pa$$w0rd", hash |-> "Pa$$w0rd"]

SeedIdentities ==
    << [name |-> ADMIN, auth |-> SeedAuth, functions |-> Arr(<<F_AUTH, F_API>>), id |-> 0] >>

Outcome(ret, store, count) == [ret |-> ret, identities |-> store, uuidCount |-> count]

\* a variant that pushes the record before committing its credentials
commitAndStore_pushFirst(record, outcome) ==
    LET c == passwordCommit(record.auth, outcome) IN
    IF c.state = "threw"
    THEN Outcome(Result("serverAuthCommitFailed",
                        "An exception occured while commiting authentication details."),
                 Append(identities, record), record.id)
    ELSE IF c.state # "success"
    THEN Outcome(c, Append(identities, record), record.id)
    ELSE LET stored == [record EXCEPT !.auth = c.cleanRecord.auth] IN
         Outcome([Result("success", "") EXCEPT !.identity = stored],
                 Append(identities, stored), record.id)

\* auth.js:243-256: the record is pushed only after commit returned success
commitAndStore(record, outcome) ==
    LET c == passwordCommit(record.auth, outcome) IN
    IF c.state = "threw"
    THEN Outcome(Result("serverAuthCommitFailed",
                        "An exception occured while commiting authentication details."),
                 identities, record.id)
    ELSE IF c.state # "success"
    THEN Outcome(c, identities, record.id)
    ELSE LET stored == [record EXCEPT !.auth = c.cleanRecord.auth] IN
         Outcome([Result("success", "") EXCEPT !.identity = stored],
                 Append(identities, stored), record.id)

\* a variant that runs the pipeline without the newIdentity option
addIdentity_lookupMode(details, outcome) ==
    LET r == validateIdentitySpec(details, NoOptions)
    IN  IF r.pass
        THEN commitAndStore([r.cleanRecord EXCEPT !.id = uuidCount + 1], outcome)
        ELSE Outcome(r, identities, uuidCount)

addIdentity(details, outcome) ==
    LET r == validateIdentitySpec(details, [newIdentity |-> TRUE, validFunctions |-> UndefArr])
    IN  IF r.pass
        THEN commitAndStore([r.cleanRecord EXCEPT !.id = uuidCount + 1], outcome)
        ELSE Outcome(r, identities, uuidCount)

\* auth.js:262-295.  The callback of findIndex reads the undeclared variable
\* name, which raises a ReferenceError on the first record it visits; the
\* store is never empty here, the pipeline having just found the identity.
setIdentity(details) ==
    LET r == validateIdentitySpec(details, NoOptions)
    IN  IF ~r.pass
        THEN Outcome(r, identities, uuidCount)
        ELSE Outcome(Thrown("ReferenceError: name is not defined"), identities, uuidCount)

NameOnly(name) == [name |-> name, auth |-> NoAuth, functions |-> UndefArr]

\* a variant that always removes the first record
Splice_first(seq, i) == Tail(seq)

\* identities.splice(i, 1)
Splice(seq, i) == [j \in 1..(Len(seq) - 1) |-> IF j < i THEN seq[j] ELSE seq[j + 1]]

\* a variant that splices at whatever index the lookup gave: -1 removes the
\* last record
removeIdentity_noCheck(name) ==
    LET r == validateIdentitySpec(NameOnly(name), NoOptions)
        i == findIndex(name)
    IN  IF ~r.pass
        THEN Outcome(r, SubSeq(identities, 1, Len(identities) - 1), uuidCount)
        ELSE Outcome(Result("success", ""), Splice(identities, i), uuidCount)

removeIdentity(name) ==
    LET r == validateIdentitySpec(NameOnly(name), NoOptions)
    IN  IF ~r.pass
        THEN Outcome(r, identities, uuidCount)
        ELSE Outcome(Result("success", ""), Splice(identities, findIndex(name)), uuidCount)

\* a variant that attaches a token whatever the provider answered
authenticate_noStateCheck(details) ==
    LET r == validateIdentitySpec(details, NoOptions)
    IN  IF ~r.pass
        THEN r
        ELSE LET identity == identities[findIndex(details.name)]
                 p == passwordAuthenticate(identity.auth, details)
             IN  [p EXCEPT !.token = newToken(identity, NoTokenOptions)]

\* a variant that issues the token for the record built from the request
authenticate_cleanRecord(details) ==
    LET r == validateIdentitySpec(details, NoOptions)
    IN  IF ~r.pass
        THEN r
        ELSE LET identity == identities[findIndex(details.name)]
                 p == passwordAuthenticate(identity.auth, details)
             IN  IF p.state # "success"
                 THEN p
                 ELSE [p EXCEPT !.token = newToken(r.cleanRecord, NoTokenOptions)]

authenticate(details) ==
    LET r == validateIdentitySpec(details, NoOptions)
    IN  IF ~r.pass
        THEN r
        ELSE LET identity == identities[findIndex(details.name)]
                 p == passwordAuthenticate(identity.auth, details)
             IN  IF p.state # "success"
                 THEN p
                 ELSE [p EXCEPT !.token = newToken(identity, NoTokenOptions)]

----------------------------------------------------------------------------
(* The client's token, in memory and in the state file                     *)
(* (src/unnamed/part_000)                                                  *)

Null == [t |-> "null", s |-> <<>>]
False == [t |-> "bool", s |-> <<>>]

\* tokens: the one of client.settings.json and two the server issues
T0 == Str(<<"t","0">>)
T1 == Str(<<"t","1">>)
T2 == Str(<<"t","2">>)

\* the file at tokenPath
NoFile == [exists |-> FALSE, data |-> <<>>]
File(data) == [exists |-> TRUE, data |-> data]

\* the text JavaScript makes of a value that is not a string
ToStringChars(v) ==
    CASE v.t = "str" -> v.s
      [] v.t = "undef" -> <<"u","n","d","e","f","i","n","e","d">>
      [] v.t = "null" -> <<"n","u","l","l">>
      [] v.t = "num" -> <<"4","2">>
      [] OTHER -> <<"f","a","l","s","e">>

\* fs.writeFileSync(tokenPath, data).  A string is written as it is.  For
\* any other value the outcome depends on the runtime: current ones throw
\* a TypeError before the file is opened ("strict"), older ones write the
\* value's text ("coerce").
writeFileSync(file, data, node) ==
    IF data.t = "str"
    THEN [threw |-> FALSE, file |-> File(data.s)]
    ELSE IF node = "strict"
    THEN [threw |-> TRUE, file |-> file]
    ELSE [threw |-> FALSE, file |-> File(ToStringChars(data))]

saveToken(file, token, node) == writeFileSync(file, token, node)

\* readFileSync(tokenPath).toString(), or false when the read throws
loadToken(file) == IF file.exists THEN Str(file.data) ELSE False

\* providers.token.messages.issue: token = message.token; saveToken(token).
\* The handler runs inside the try block of the message listener, so a
\* throw of saveToken ends the handler after the assignment.
issue(c, message) ==
    LET w == saveToken(c.file, message.token, c.node) IN
    [c EXCEPT !.token = message.token, !.file = w.file]

\* the registry: provider name to the names of its message handlers
W_TOKEN == <<"t","o","k","e","n">>
W_SESSION == <<"s","e","s","s","i","o","n">>
W_ISSUE == <<"i","s","s","u","e">>
W_STATE == <<"s","t","a","t","e">>
W_CAPABILITY == <<"c","a","p","a","b","i","l","i","t","y">>
W_REFRESH == <<"r","e","f","r","e","s","h">>

providers(name) ==
    CASE name = W_TOKEN -> {W_ISSUE}
      [] name = W_SESSION -> {W_STATE, W_CAPABILITY}
      [] OTHER -> {}
hasProvider(name) == name \in {W_TOKEN, W_SESSION}

\* the type pattern: provider, one dot, message, each a non-empty run of
\* characters of the class, anchored at both ends
TypeClass == RegexClass \ {"."}
Dots(s) == {i \in 1..Len(s) : s[i] = "."}
typeMatch(s) ==
    /\ Cardinality(Dots(s)) = 1
    /\ \A i \in 1..Len(s) : s[i] \in TypeClass \cup {"."}
    /\ \A d \in Dots(s) : d > 1 /\ d < Len(s)
Dot(s) == CHOOSE d \in Dots(s) : TRUE
providerOf(s) == SubSeq(s, 1, Dot(s) - 1)
messageOf(s) == SubSeq(s, Dot(s) + 1, Len(s))

\* the message listener up to the call of the handler: the handler chosen,
\* or the reason the message is dropped
dispatch(msg) ==
    IF ~msg.json THEN "invalidJSON"
    ELSE IF ~Truthy(msg.type) THEN "noType"
    ELSE IF ~typeMatch(msg.type.s) THEN "invalidFormat"
    ELSE IF ~hasProvider(providerOf(msg.type.s)) THEN "noProvider"
    ELSE IF messageOf(msg.type.s) \notin providers(providerOf(msg.type.s)) THEN "noHandler"
    ELSE IF messageOf(msg.type.s) = W_ISSUE THEN "issue"
    ELSE IF messageOf(msg.type.s) = W_STATE THEN "state"
    ELSE "capability"

----------------------------------------------------------------------------
(* Middleware and endpoint bindings *)

NoHeader == [present |-> FALSE, scheme |-> <<>>, token |-> NoToken]
Bearer(scheme, token) == [present |-> TRUE, scheme |-> scheme, token |-> token]

\* auth.match(/^(?<type>bearer) (?<token>.+)/): the scheme word is compared
\* letter by letter, in lower case, and the token must not be empty
headerMatch(header) ==
    /\ header.scheme = <<"b","e","a","r","e","r">>
    /\ header.token # NoToken

\* a variant that attaches the claims of any token without verifying it
mw_verify_noVerify(header) ==
    IF header.present /\ headerMatch(header)
    THEN decode(header.token)
    ELSE NullClaims

\* mw_verify: the value of req.authenticated when next() is called
\* (NullClaims: the property was not set)
mw_verify(header) ==
    IF header.present /\ headerMatch(header)
    THEN verifyToken(header.token)
    ELSE NullClaims

\* a variant that lets every verified token through
guardPasses_anyClaims(authenticated) == ~authenticated.null

\* the guard of the protected sub-tree calls next()
guardPasses(authenticated) ==
    /\ ~authenticated.null
    /\ TruthyArr(authenticated.functions)
    /\ Includes(authenticated.functions.a, F_AUTH)

\* status of POST {path}: a switch without default leaves the response at 200
authenticateStatus(r) ==
    IF r.token # NoToken THEN 200
    ELSE CASE r.state = "threw" -> 500
           [] r.state = "requestError" -> 400
           [] r.state = "serverError" -> 500
           [] r.state = "failed" -> 403
           [] OTHER -> 200

\* r.state.match(/^request/)
StartsWithRequest(state) == state \in {"requestError"}

addUserStatus(r) ==
    CASE r.state = "threw" -> 500
      [] r.state = "success" -> 201
      [] StartsWithRequest(r.state) -> 400
      [] OTHER -> 500

removeUserStatus(r) ==
    CASE r.state = "threw" -> 500
      [] r.state = "success" -> 200
      [] OTHER -> 400

----------------------------------------------------------------------------
(* State *)

NoIssued ==
    [token |-> NoToken, name |-> Undef, functions |-> UndefArr, options |-> NoTokenOptions]
Issued(token, identity, options) ==
    [token |-> token, name |-> identity.name, functions |-> identity.functions,
     options |-> options]

NoDetails == [name |-> Undef, auth |-> NoAuth, functions |-> UndefArr]

Last(op, details, ret) ==
    [op |-> op, details |-> details, options |-> NoOptions, ret |-> ret,
     outcome |-> "none", status |-> 0, header |-> NoHeader,
     authenticated |-> NullClaims, reached |-> FALSE]

\* the client process has not been started
ClientOff ==
    [pc |-> "off", conn |-> "none", token |-> Null, file |-> NoFile, sent |-> Null,
     handled |-> "none", node |-> "strict", settings |-> Undef]

Init ==
    /\ identities = SeedIdentities
    /\ uuidCount = 0
    /\ now = 0
    /\ issued = NoIssued
    /\ last = Last("init", NoDetails, Result("none", ""))
    /\ client = ClientOff

----------------------------------------------------------------------------
(* Calls of the exported functions *)

\* the provider's commit is reached by addIdentity(details)
commitCalled(details) ==
    validateIdentitySpec(details, [newIdentity |-> TRUE, validFunctions |-> UndefArr]).pass

AddIdentity(details, outcome) ==
    /\ LET o == addIdentity(details, outcome) IN
        /\ o.uuidCount <= MaxUuid
        /\ commitCalled(details) \/ outcome = "ok"
        /\ identities' = o.identities
        /\ uuidCount' = o.uuidCount
        /\ last' = [Last("addIdentity", details, o.ret) EXCEPT !.outcome = outcome]
    /\ UNCHANGED <<now, issued, client>>

SetIdentity(details) ==
    /\ LET o == setIdentity(details) IN
        /\ identities' = o.identities
        /\ uuidCount' = o.uuidCount
        /\ last' = Last("setIdentity", details, o.ret)
    /\ UNCHANGED <<now, issued, client>>

RemoveIdentity(name) ==
    /\ LET o == removeIdentity(name) IN
        /\ identities' = o.identities
        /\ uuidCount' = o.uuidCount
        /\ last' = Last("removeIdentity", NameOnly(name), o.ret)
    /\ UNCHANGED <<now, issued, client>>

ValidateIdentitySpec(details, options) ==
    /\ last' = [Last("validateIdentitySpec", details, validateIdentitySpec(details, options))
                    EXCEPT !.options = options]
    /\ UNCHANGED <<identities, uuidCount, now, issued, client>>

----------------------------------------------------------------------------
(* Requests *)

\* POST {path}
PostAuthenticate(header, body) ==
    /\ LET r == authenticate(body) IN
        /\ last' = [Last("authenticate", body, r) EXCEPT
                        !.status = authenticateStatus(r), !.header = header,
                        !.authenticated = mw_verify(header), !.reached = TRUE]
        /\ issued' = IF r.token # NoToken
                     THEN Issued(r.token, identities[findIndex(body.name)], NoTokenOptions)
                     ELSE issued
    /\ UNCHANGED <<identities, uuidCount, now, client>>

\* POST {path}/user, behind mw_verify and the guard
PostUser(header, body, outcome) ==
    /\ LET a == mw_verify(header)
           o == addIdentity(body, outcome)
       IN  IF guardPasses(a)
           THEN /\ o.uuidCount <= MaxUuid
                /\ commitCalled(body) \/ outcome = "ok"
                /\ identities' = o.identities
                /\ uuidCount' = o.uuidCount
                /\ last' = [Last("postUser", body, o.ret) EXCEPT
                                !.outcome = outcome, !.status = addUserStatus(o.ret),
                                !.header = header, !.authenticated = a, !.reached = TRUE]
           ELSE /\ outcome = "ok"
                /\ UNCHANGED <<identities, uuidCount>>
                /\ last' = [Last("postUser", body, Result("none", "")) EXCEPT
                                !.status = 403,
                                !.header = header, !.authenticated = a]
    /\ UNCHANGED <<now, issued, client>>

\* DELETE {path}/user/:identityId, behind mw_verify and the guard
DeleteUser(header, identityId) ==
    /\ LET a == mw_verify(header)
           o == removeIdentity(identityId)
       IN  IF guardPasses(a)
           THEN /\ identities' = o.identities
                /\ uuidCount' = o.uuidCount
                /\ last' = [Last("deleteUser", NameOnly(identityId), o.ret) EXCEPT
                                !.status = removeUserStatus(o.ret),
                                !.header = header, !.authenticated = a, !.reached = TRUE]
           ELSE /\ UNCHANGED <<identities, uuidCount>>
                /\ last' = [Last("deleteUser", NameOnly(identityId), Result("none", "")) EXCEPT
                                !.status = 403, !.header = header, !.authenticated = a]
    /\ UNCHANGED <<now, issued, client>>

\* a call of newToken for a stored identity, with or without a duration
NewToken(i, options) ==
    /\ i \in 1..Len(identities)
    /\ issued' = Issued(newToken(identities[i], options), identities[i], options)
    /\ last' = [Last("newToken", NameOnly(identities[i].name), Result("none", ""))
                    EXCEPT !.ret.token = newToken(identities[i], options)]
    /\ UNCHANGED <<identities, uuidCount, now, client>>

\* the clock moves on to a later instant
Tick(t) ==
    /\ t > now
    /\ now' = t
    /\ last' = Last("tick", NoDetails, Result("none", ""))
    /\ UNCHANGED <<identities, uuidCount, issued, client>>

----------------------------------------------------------------------------
(* Inputs *)

Names == {Undef, Num42, ADMIN, BOB, BADNAME, BANG}
Auths == {NoAuth, RawAuth("none", "x"), RawAuth("ldap", "x"),
          RawAuth("password", "none"), RawAuth("password", "x")}
Functions == {UndefArr, NotArr, Arr(<<F_API>>), Arr(<<F_ADMIN>>), Arr(<<F_BAD, Num42>>)}

Pw == RawAuth("password", "x")

Det(n, a, f) == [name |-> n, auth |-> a, functions |-> f]

\* specifications with a functions list: a new name with credentials, and a
\* stored name without
FunctionDetails ==
    {Det(BOB, Pw, f) : f \in Functions} \cup {Det(ADMIN, NoAuth, f) : f \in Functions}

Details ==
    {Det(n, Pw, UndefArr) : n \in Names}
        \cup {Det(n, NoAuth, UndefArr) : n \in {ADMIN, BOB}}
        \cup {Det(BOB, a, Arr(<<F_API>>)) : a \in Auths}
        \cup FunctionDetails

ValidateDetails ==
    FunctionDetails \cup {Det(n, Pw, UndefArr) : n \in {Undef, BADNAME, BANG}}

ValidFunctions == {UndefArr, Arr(<<F_API>>), Arr(<<F_ZERO, F_API>>)}
Options == {[newIdentity |-> b, validFunctions |-> v] : b \in BOOLEAN, v \in ValidFunctions}

NextApi ==
    \/ \E d \in Details, c \in CommitOutcomes : AddIdentity(d, c)
    \/ \E d \in Details : SetIdentity(d)
    \/ \E n \in Names : RemoveIdentity(n)
    \/ \E d \in ValidateDetails, o \in Options : ValidateIdentitySpec(d, o)

SpecApi == Init /\ [][NextApi]_vars

(* The server: requests through the endpoint bindings, with the token the  *)
(* client was handed last (or a forged one) in the Authorization header    *)

AdminPw == RawAuth("password", "Pa$$w0rd")

AuthBodies ==
    {Det(n, a, UndefArr) : n \in {ADMIN, BOB, Undef},
                           a \in {NoAuth, Pw, AdminPw, RawAuth("ldap", "x")}}
        \cup {Det(BOB, Pw, Arr(<<F_AUTH>>)), Det(BOB, Pw, NotArr)}

UserBodies ==
    {Det(BOB, Pw, UndefArr), Det(BOB, Pw, Arr(<<F_AUTH>>)),
     Det(ADMIN, Pw, Arr(<<F_API>>)), Det(BOB, NoAuth, UndefArr)}

Schemes == {<<"b","e","a","r","e","r">>, <<"B","e","a","r","e","r">>,
            <<"B","E","A","R","E","R">>, <<"b","a","s","i","c">>}

\* a token with the claims of the seeded administrator, signed with another secret
ForgedToken ==
    [payload |-> << <<"name", ADMIN>>, <<"iat", 0>>, <<"exp", 4 * DefaultLifetime>>,
                    <<"functions", Arr(<<F_AUTH, F_API>>)>> >>,
     sig |-> "forged"]

Headers ==
    {NoHeader} \cup {Bearer(sc, t) : sc \in Schemes, t \in {issued.token, ForgedToken}}

\* the open endpoint is called without a header or with a stale one
AuthHeaders == {NoHeader, Bearer(<<"b","e","a","r","e","r">>, ForgedToken)}

\* the instants requests arrive at: start-up, one second before and one
\* second after the expiry of a token issued at start-up
HttpInstants == {0, 2 * (DefaultLifetime - 1), 2 * (DefaultLifetime + 1)}

NextHttp ==
    \/ \E h \in AuthHeaders, b \in AuthBodies : PostAuthenticate(h, b)
    \/ \E h \in Headers, b \in UserBodies, c \in CommitOutcomes : PostUser(h, b, c)
    \/ \E h \in Headers, n \in {ADMIN, BOB, BANG} : DeleteUser(h, n)
    \/ \E t \in HttpInstants : Tick(t)

SpecHttp == Init /\ [][NextHttp]_vars

(* The token service on a fine clock, next to removal and re-creation of   *)
(* the identity a token was made from                                      *)

TokenOptions == {NoTokenOptions, [hasDuration |-> TRUE, duration |-> 2],
                 [hasDuration |-> TRUE, duration |-> 3]}

Instants ==
    {2 * sec + half : sec \in (0..MaxSkew) \cup ((DefaultLifetime - MaxSkew)..(DefaultLifetime + MaxSkew)),
                      half \in {0, 1}}

NextToken ==
    \/ \E b \in {Det(ADMIN, AdminPw, UndefArr), Det(ADMIN, Pw, UndefArr)} : PostAuthenticate(NoHeader, b)
    \/ \E i \in 1..Len(identities), o \in TokenOptions : NewToken(i, o)
    \/ \E t \in Instants : Tick(t)
    \/ RemoveIdentity(ADMIN)
    \/ AddIdentity(Det(ADMIN, Pw, Arr(<<F_API>>)), "ok")

SpecToken == Init /\ [][NextToken]_vars

(* The four operations that read the store, side by side, on few inputs    *)

FrameDetails ==
    {Det(n, a, UndefArr) : n \in {ADMIN, BOB, Num42}, a \in {NoAuth, Pw, AdminPw}}

NextFrame ==
    \/ \E d \in FrameDetails, c \in CommitOutcomes : AddIdentity(d, c)
    \/ \E n \in {ADMIN, BOB, Num42, Undef} : RemoveIdentity(n)
    \/ \E d \in FrameDetails, o \in Options : ValidateIdentitySpec(d, o)
    \/ \E d \in FrameDetails : PostAuthenticate(NoHeader, d)

SpecFrame == Init /\ [][NextFrame]_vars

(* The client process: start-up, the connection's events and the server's *)
(* messages, with restarts of the process over the same state directory    *)

\* lines 27-38 and the call of connect() at the end of the file
Startup ==
    /\ client.pc = "boot"
    /\ IF ~client.file.exists
       THEN LET w == saveToken(client.file, client.settings, client.node) IN
            IF w.threw
            THEN client' = [client EXCEPT !.pc = "crashed"]
            ELSE client' = [client EXCEPT !.pc = "ready", !.conn = "connecting",
                                          !.file = w.file, !.token = client.settings]
       ELSE client' = [client EXCEPT !.pc = "ready", !.conn = "connecting",
                                     !.token = loadToken(client.file)]
    /\ UNCHANGED <<identities, uuidCount, now, issued, last>>

\* connection.onopen
OnOpen ==
    /\ client.pc = "ready"
    /\ client.conn = "connecting"
    /\ client' = [client EXCEPT !.conn = "open", !.sent = client.token]
    /\ UNCHANGED <<identities, uuidCount, now, issued, last>>

\* connection.on('message')
OnMessage(msg) ==
    /\ client.pc = "ready"
    /\ client.conn = "open"
    /\ LET h == dispatch(msg) IN
       client' = CASE h = "issue" -> [issue(client, msg) EXCEPT !.handled = h]
                   [] h = "capability" ->
                         [client EXCEPT !.handled = h,
                                        !.sent = Str(W_SESSION \o <<".">> \o W_CAPABILITY)]
                   [] OTHER -> [client EXCEPT !.handled = h]
    /\ UNCHANGED <<identities, uuidCount, now, issued, last>>

\* connection.on('close'), after an error or an orderly close: the refresh
\* timer is cleared and connect is scheduled
OnClose ==
    /\ client.pc = "ready"
    /\ client.conn \in {"connecting", "open"}
    /\ client' = [client EXCEPT !.conn = "closed"]
    /\ UNCHANGED <<identities, uuidCount, now, issued, last>>

\* setTimeout(connect, 30000) fires
Reconnect ==
    /\ client.pc = "ready"
    /\ client.conn = "closed"
    /\ client' = [client EXCEPT !.conn = "connecting"]
    /\ UNCHANGED <<identities, uuidCount, now, issued, last>>

\* the refresh timer fires: on an open connection the request is sent, on
\* one still connecting send throws out of the timer callback
TokenRefresh ==
    /\ client.pc = "ready"
    /\ client.conn \in {"connecting", "open"}
    /\ client' = IF client.conn = "open"
                 THEN [client EXCEPT !.sent = Str(W_TOKEN \o <<".">> \o W_REFRESH)]
                 ELSE [client EXCEPT !.pc = "crashed", !.conn = "none"]
    /\ UNCHANGED <<identities, uuidCount, now, issued, last>>

\* the process is started again over the state directory it left
Restart ==
    /\ client.pc \in {"ready", "crashed"}
    /\ client' = [client EXCEPT !.pc = "boot", !.conn = "none", !.token = Null,
                                !.sent = Null, !.handled = "none"]
    /\ UNCHANGED <<identities, uuidCount, now, issued, last>>

Msg(type, token) == [json |-> TRUE, type |-> type, token |-> token]
NotJson == [json |-> FALSE, type |-> Undef, token |-> Undef]

\* server messages: token.issue with a token, without one and with a number
\* for one; the other handlers; and one message for every way of being dropped
Messages ==
    {Msg(Str(W_TOKEN \o <<".">> \o W_ISSUE), t) : t \in {T1, T2, Undef, Num42}}
        \cup {Msg(ty, Undef) : ty \in {Undef,
                                       Str(W_TOKEN),
                                       Str(<<"x", ".">> \o W_ISSUE),
                                       Str(W_TOKEN \o <<".">> \o W_REFRESH),
                                       Str(W_SESSION \o <<".">> \o W_STATE),
                                       Str(W_SESSION \o <<".">> \o W_CAPABILITY)}}
        \cup {NotJson}

\* the process before its first line runs: with or without a token file
\* left by an earlier run, with or without a token in client.settings.json,
\* on either kind of runtime
InitClient ==
    /\ identities = SeedIdentities
    /\ uuidCount = 0
    /\ now = 0
    /\ issued = NoIssued
    /\ last = Last("init", NoDetails, Result("none", ""))
    /\ client \in {[ClientOff EXCEPT !.pc = "boot", !.file = f, !.settings = s, !.node = n] :
                        f \in {NoFile, File(T1.s)}, s \in {T0, Undef},
                        n \in {"strict", "coerce"}}

NextClient ==
    \/ Startup
    \/ OnOpen
    \/ \E m \in Messages : OnMessage(m)
    \/ OnClose
    \/ Reconnect
    \/ TokenRefresh
    \/ Restart

SpecClient == InitClient /\ [][NextClient]_vars

----------------------------------------------------------------------------
(* Properties of the identity store *)

Stored(name) == \E i \in 1..Len(identities) : identities[i].name = name

\* C1: for every identity name, after any sequence of addIdentity and
\* removeIdentity calls from the seeded store, at most one record of the
\* store has that name.
UniqueNames ==
    \A i, j \in 1..Len(identities) :
        identities[i].name = identities[j].name => i = j

\* an add was refused for a name in use, next to another stored identity
UniqueNamesWitness ==
    /\ last.op = "addIdentity"
    /\ last.ret.reason = "Identity name already in use."
    /\ Len(identities) >= 2

\* C2: when the provider's commit throws during addIdentity, the call returns
\* serverAuthCommitFailed (nothing propagates) and the store is what it was.
AtomicAdd ==
    [][(last'.op = "addIdentity" /\ last'.outcome = "throw")
          => (last'.ret.state = "serverAuthCommitFailed" /\ identities' = identities)]_vars

AtomicAddWitness ==
    /\ last.op = "addIdentity"
    /\ last.outcome = "throw"
    /\ last.ret.state = "serverAuthCommitFailed"
    /\ Len(identities) >= 2

\* C8: setIdentity for an existing identity with only {name, functions: F}
\* returns success, leaves the record's functions equal to F, and leaves its
\* auth blob and every other record as they were.
SetIdentityPartialUpdate ==
    [][(/\ last'.op = "setIdentity"
        /\ Stored(last'.details.name)
        /\ last'.details.auth = NoAuth
        /\ last'.details.functions.t = "array")
          => (/\ last'.ret.state = "success"
              /\ Len(identities') = Len(identities)
              /\ \A i \in 1..Len(identities) :
                    /\ identities'[i].auth = identities[i].auth
                    /\ identities'[i].name = identities[i].name
                    /\ identities'[i].functions =
                          IF identities[i].name = last'.details.name
                          THEN last'.details.functions
                          ELSE identities[i].functions)]_vars

\* the names of a functions list that an allow-list does not hold
NotAllowed(functions, validFunctions) ==
    SelectSeq(functions, LAMBDA f : ~Includes(validFunctions, f))

\* C9: with options.validFunctions given and the specification otherwise
\* valid, validateIdentitySpec returns requestError exactly when a supplied
\* function name is not in the list, the reason naming every such name, and
\* success when every supplied name is in the list.
AllowListEnforced ==
    (/\ last.op = "validateIdentitySpec"
     /\ last.options.validFunctions.t = "array"
     /\ last.details.functions.t = "array"
     /\ validateIdentitySpec(last.details,
                             [last.options EXCEPT !.validFunctions = UndefArr]).pass)
        => LET bad == NotAllowed(last.details.functions.a, last.options.validFunctions.a)
           IN  IF Len(bad) > 0
               THEN last.ret.state = "requestError" /\ last.ret.names = bad
               ELSE last.ret.state = "success"

\* the identity-name pattern of the data model, matched by the whole name
NameChars == Upper \cup Lower \cup Digit \cup {"_", ".", "-"}
WellFormedName(name) ==
    /\ name.t = "str"
    /\ name.s # <<>>
    /\ \A i \in 1..Len(name.s) : name.s[i] \in NameChars
Malformed(name) == name.t \in {"undef", "str"} /\ ~WellFormedName(name)

\* C10: validateIdentitySpec returns requestError for every name that is
\* absent or holds a character outside the pattern, in creation mode and in
\* update/lookup mode alike, so that no record with a malformed name is stored.
MalformedNamesRejected ==
    /\ (last.op = "validateIdentitySpec" /\ Malformed(last.details.name))
          => last.ret.state = "requestError"
    /\ \A i \in 1..Len(identities) : WellFormedName(identities[i].name)

----------------------------------------------------------------------------
(* Properties of authentication, the guard and the token service *)

\* C3: authenticate issues a token only when the pipeline succeeds for an
\* existing identity and the provider's authenticate on the stored auth
\* returns success; a non-success result of the pipeline or of the provider
\* is returned unchanged and carries no token.
TokenOnlyOnSuccess ==
    last.op = "authenticate" =>
        LET v == validateIdentitySpec(last.details, NoOptions) IN
        IF v.state # "success"
        THEN last.ret = v /\ last.ret.token = NoToken
        ELSE /\ Stored(last.details.name)
             /\ LET p == passwordAuthenticate(
                            identities[findIndex(last.details.name)].auth, last.details)
                IN  IF p.state # "success"
                    THEN last.ret = p /\ last.ret.token = NoToken
                    ELSE last.ret.state = "success" /\ last.ret.token # NoToken

\* a wrong password for a stored identity was answered "failed", without a token
TokenOnlyOnSuccessWitness ==
    /\ last.op = "authenticate"
    /\ Stored(last.details.name)
    /\ last.ret.state = "failed"
    /\ last.ret.token = NoToken

\* C4: a request to the protected sub-tree without attached claims, or with
\* claims that do not hold the function auth, is answered 403 and reaches
\* neither addIdentity nor removeIdentity: the store is unchanged by it.
GuardForbids ==
    [][(/\ last'.op \in {"postUser", "deleteUser"}
        /\ \/ last'.authenticated.null
           \/ ~Includes(last'.authenticated.functions.a, F_AUTH))
          => (last'.status = 403 /\ ~last'.reached /\ identities' = identities)]_vars

\* a verified token without the function auth was turned away
GuardForbidsWitness ==
    /\ last.op = "postUser"
    /\ ~last.authenticated.null
    /\ ~Includes(last.authenticated.functions.a, F_AUTH)
    /\ last.status = 403

\* C5: for an identity I with functions F, verifyToken(newToken(I)), taken
\* before expiry, yields claims whose name is I.name and whose functions
\* equal F.
TokenRoundTrip ==
    (/\ last.op \in {"authenticate", "newToken"}
     /\ last.ret.token # NoToken
     /\ FloorSeconds(now) < decode(last.ret.token).exp)
        => LET I == identities[findIndex(last.details.name)]
               claims == verifyToken(last.ret.token)
           IN  /\ ~claims.null
               /\ claims.name = I.name
               /\ claims.functions = I.functions

TokenRoundTripWitness ==
    /\ last.op = "authenticate"
    /\ last.ret.token # NoToken
    /\ verifyToken(last.ret.token).functions = Arr(<<F_AUTH, F_API>>)

\* C6: a token issued with exp = t (iat plus 30 minutes by default, iat plus
\* the duration when a duration of whole seconds is supplied) is accepted by
\* verifyToken at time t - 1, and verifyToken returns null for it at t + 1.
ExpiryBoundary ==
    issued.token # NoToken =>
        LET c == decode(issued.token)
            sec == FloorSeconds(now)
        IN  /\ ~issued.options.hasDuration => c.exp = c.iat + DefaultLifetime
            /\ (issued.options.hasDuration /\ issued.options.duration % 2 = 0)
                  => c.exp = c.iat + issued.options.duration \div 2
            /\ sec = c.exp - 1 => ~verifyToken(issued.token).null
            /\ sec = c.exp + 1 => verifyToken(issued.token).null

\* one second after the expiry of a token of default lifetime
ExpiryBoundaryWitness ==
    /\ issued.token # NoToken
    /\ ~issued.options.hasDuration
    /\ FloorSeconds(now) = decode(issued.token).exp + 1
    /\ verifyToken(issued.token).null

\* C7: a token keeps verifying, with the name and the functions captured at
\* issuance, after any later store mutation (removal of its identity, a
\* change of its functions), at every time before its exp.
TokenOutlivesStore ==
    (issued.token # NoToken /\ FloorSeconds(now) < decode(issued.token).exp)
        => LET claims == verifyToken(issued.token)
           IN  /\ ~claims.null
               /\ claims.name = issued.name
               /\ claims.functions = issued.functions

\* the identity of the token was removed, or stored again with other
\* functions, and time has passed
TokenOutlivesStoreWitness ==
    /\ issued.token # NoToken
    /\ now > 0
    /\ ~verifyToken(issued.token).null
    /\ uuidCount > 0
    /\ Stored(issued.name)
    /\ identities[findIndex(issued.name)].functions # issued.functions

----------------------------------------------------------------------------
(* Further properties of the store and of the endpoint bindings *)

AuthenticateStatusMapping ==
    last.op = "authenticate" =>
        /\ last.status = 200 => last.ret.token # NoToken
        /\ last.ret.state = "failed" => last.status = 403
        /\ last.ret.state = "requestError" => last.status = 400
        /\ last.ret.state \notin {"success", "failed", "requestError"} => last.status = 500

\* the scheme word with its letters in lower case
LowerLetter(c) ==
    CASE c = "B" -> "b" [] c = "E" -> "e" [] c = "A" -> "a" [] c = "R" -> "r"
      [] OTHER -> c
LowerWord(w) == [i \in 1..Len(w) |-> LowerLetter(w[i])]
IsBearerWord(w) == LowerWord(w) = <<"b","e","a","r","e","r">>

\* C13: a request whose Authorization header carries a token that
\* verifyToken accepts gets the decoded claims attached, whatever the letter
\* case of the scheme word (Bearer, bearer, BEARER).
SchemeCaseInsensitive ==
    (/\ last.op \in {"authenticate", "postUser", "deleteUser"}
     /\ last.header.present
     /\ IsBearerWord(last.header.scheme)
     /\ ~verifyToken(last.header.token).null)
        => last.authenticated = verifyToken(last.header.token)

\* the stored record an authenticate call was answered from
StoredRecord(name) == identities[findIndex(name)]

\* C17: for every successful authenticate(details) the decoded token's name
\* equals the stored identity's name and its functions equal the functions
\* of the stored record at that moment, whatever functions field the request
\* details carry.
TokenFromStoredRecord ==
    (last.op = "authenticate" /\ last.ret.token # NoToken) =>
        /\ last.ret.state = "success"
        /\ Stored(last.details.name)
        /\ decode(last.ret.token).name = StoredRecord(last.details.name).name
        /\ decode(last.ret.token).functions = StoredRecord(last.details.name).functions
TokenFromStoredRecordWitness ==
    /\ last.op = "authenticate"
    /\ last.ret.token # NoToken
    /\ last.details.functions = Arr(<<F_AUTH>>)
    /\ decode(last.ret.token).functions # last.details.functions

\* C19: the verification middleware always passes the request on, and it
\* attaches claims only when the Authorization header carries a bearer token
\* that verifyToken accepts at that time; a missing header, a malformed
\* header, a bad signature or an expired token leaves the request without
\* attached claims.
ClaimsOnlyFromVerifiedToken ==
    last.op \in {"authenticate", "postUser", "deleteUser"} =>
        /\ last.op = "authenticate" => last.reached
        /\ last.op # "authenticate" => (last.reached <=> guardPasses(last.authenticated))
        /\ ~last.authenticated.null =>
              /\ last.header.present
              /\ IsBearerWord(last.header.scheme)
              /\ last.header.token.sig = secret
              /\ now \div 2 < decode(last.header.token).exp
              /\ last.authenticated = decode(last.header.token)
        /\ ~last.header.present => last.authenticated.null
        /\ ~IsBearerWord(last.header.scheme) => last.authenticated.null
        /\ last.header.token.sig # secret => last.authenticated.null
        /\ now \div 2 >= decode(last.header.token).exp => last.authenticated.null
ClaimsOnlyFromVerifiedTokenWitness ==
    /\ last.op = "postUser"
    /\ last.header.present
    /\ last.header.scheme = <<"b","e","a","r","e","r">>
    /\ last.header.token = issued.token
    /\ issued.token # NoToken
    /\ now \div 2 >= decode(issued.token).exp
    /\ last.authenticated.null
    /\ last.status = 403

\* C14: every call of addIdentity, setIdentity, removeIdentity or
\* authenticate, for any input details and any store contents, returns a
\* result object carrying a state; no exception escapes these operations.
NoExceptionEscapes ==
    last.op \in {"addIdentity", "setIdentity", "removeIdentity", "authenticate"}
        => last.ret.state # "threw"

\* C15: in every reachable state the functions of every stored identity
\* contain only strings that match the function-name pattern; a functions
\* array holding a non-string or a malformed name is rejected with
\* requestError and is never stored.
WellFormedFunction(f) == f.t = "str" /\ functionRegex(f.s)
StoredFunctionsWellFormed ==
    /\ \A i \in 1..Len(identities) :
          identities[i].functions.t = "array" =>
              \A j \in 1..Len(identities[i].functions.a) :
                  WellFormedFunction(identities[i].functions.a[j])
    /\ (/\ last.op = "addIdentity"
        /\ last.details.functions.t = "array"
        /\ \E j \in 1..Len(last.details.functions.a) :
              ~WellFormedFunction(last.details.functions.a[j]))
          => last.ret.state \in {"requestError", "threw"}

\* C16: in every reachable state every record of the identity store carries
\* an id, no two records share an id, and an id that belonged to a removed
\* record is never assigned to a later record.
IdsAssignedOnce ==
    [][/\ \A i \in 1..Len(identities') : identities'[i].id # 0
       /\ \A i, j \in 1..Len(identities') :
             identities'[i].id = identities'[j].id => i = j
       /\ (last'.op = "addIdentity" /\ last'.ret.state = "success")
             => identities'[Len(identities')].id > uuidCount]_vars

\* C18: removeIdentity(name) for a name present in the store returns success
\* and removes exactly the record with that name, leaving every other record
\* and their order unchanged; for a name not present it returns requestError
\* and leaves the store unchanged.
OtherThan(name) == SelectSeq(identities, LAMBDA r : r.name # name)
ReadersLeaveStore ==
    [][/\ last'.op \in {"validateIdentitySpec", "authenticate"}
            => identities' = identities
       /\ (last'.op \in {"addIdentity", "removeIdentity"} /\ last'.ret.state # "success")
            => identities' = identities]_vars
ReadersLeaveStoreWitness ==
    /\ last.op = "removeIdentity"
    /\ last.details.name = BOB
    /\ last.ret.state = "requestError"
    /\ Len(identities) = 1
    /\ identities[1].name = ADMIN

\* the token file holds exactly the token the process has in memory
Persisted(c) == c.file.exists /\ c.token.t = "str" /\ c.file.data = c.token.s

\* C21: in the persistent-connection client, after start-up and after every
\* server message has been processed (token.issue with or without a token
\* field included), the token held in memory equals the token saved in the
\* token file, so the token sent on the next reconnect is the one last
\* persisted.
\* (stated for a settings file that carries a token)
MemoryTokenPersisted ==
    (client.pc = "ready" /\ client.settings.t = "str") => Persisted(client)

====
